---- MODULE Spec2Model ----
(***************************************************************************)
(* A model of perkly's app.py: the catalog writers (seed_from_excel,       *)
(* admin_add_card), the text normaliser, the cashback-rate and feature     *)
(* extraction, the value estimate, the scorer and the recommend handler.   *)
(*                                                                         *)
(* Text is a sequence of one-character strings, so that strip, lower,      *)
(* split, substring search and the regular expression of                   *)
(* extract_cashback_rates are computed character by character.             *)
(* A float is an exact decimal [n |-> numerator, d |-> power of ten]; the  *)
(* model does not round, and has no infinity.                              *)
(***************************************************************************)
EXTENDS Integers, Sequences, FiniteSets, TLC

VARIABLES cards, req, call

vars == <<cards, req, call>>

(***************************************************************************)
(* Characters and strings                                                  *)
(***************************************************************************)
Digits == <<"0", "1", "2", "3", "4", "5", "6", "7", "8", "9">>

UpperChars == <<"A", "B", "C", "D", "E", "F", "G", "H", "I", "J", "K", "L", "M",
                "N", "O", "P", "Q", "R", "S", "T", "U", "V", "W", "X", "Y", "Z">>

LowerChars == <<"a", "b", "c", "d", "e", "f", "g", "h", "i", "j", "k", "l", "m",
                "n", "o", "p", "q", "r", "s", "t", "u", "v", "w", "x", "y", "z">>

IsDigit(c) == \E i \in 1..10 : Digits[i] = c

DigitVal(c) == (CHOOSE i \in 1..10 : Digits[i] = c) - 1

\* \s of the regular expressions and the characters str.strip() removes.
IsSpace(c) == c \in {" ", "\t", "\n", "\r", "\f"}

\* The characters re.split(r"[\n\r]+") splits on.
IsLineBreak(c) == c \in {"\n", "\r"}

LowerChar(c) ==
    IF \E i \in 1..26 : UpperChars[i] = c
    THEN LowerChars[CHOOSE i \in 1..26 : UpperChars[i] = c]
    ELSE c

\* str.lower()
RECURSIVE Lower(_)
Lower(s) == IF s = <<>> THEN <<>> ELSE <<LowerChar(Head(s))>> \o Lower(Tail(s))

\* The positions of the first and last non-space characters (0 if none).
FirstNonSpace(s) ==
    IF \E i \in 1..Len(s) : ~IsSpace(s[i])
    THEN CHOOSE i \in 1..Len(s) :
            ~IsSpace(s[i]) /\ \A j \in 1..(i - 1) : IsSpace(s[j])
    ELSE 0

LastNonSpace(s) ==
    IF \E i \in 1..Len(s) : ~IsSpace(s[i])
    THEN CHOOSE i \in 1..Len(s) :
            ~IsSpace(s[i]) /\ \A j \in (i + 1)..Len(s) : IsSpace(s[j])
    ELSE 0

\* str.strip()
Strip(s) ==
    IF FirstNonSpace(s) = 0 THEN <<>>
    ELSE SubSeq(s, FirstNonSpace(s), LastNonSpace(s))

\* w occurs in s at position i.
StartsWith(s, i, w) ==
    /\ i >= 1
    /\ i + Len(w) - 1 <= Len(s)
    /\ \A k \in 1..Len(w) : s[i + k - 1] = w[k]

\* needle in hay
Contains(hay, needle) == \E i \in 1..(Len(hay) + 1) : StartsWith(hay, i, needle)

\* The concatenation of a sequence of strings.
RECURSIVE Cat(_)
Cat(ss) == IF ss = <<>> THEN <<>> ELSE Head(ss) \o Cat(Tail(ss))

\* sep.join(ss)
RECURSIVE Join(_, _)
Join(sep, ss) ==
    IF ss = <<>> THEN <<>>
    ELSE IF Len(ss) = 1 THEN ss[1]
    ELSE ss[1] \o sep \o Join(sep, Tail(ss))

\* re.split(r"[\n\r]+", s): the pieces between maximal runs of line breaks;
\* a run at either end leaves an empty piece there.
RECURSIVE SplitFrom(_, _, _)
SplitFrom(s, i, cur) ==
    IF i > Len(s) THEN <<cur>>
    ELSE IF IsLineBreak(s[i])
         THEN IF i > 1 /\ IsLineBreak(s[i - 1])
              THEN SplitFrom(s, i + 1, cur)
              ELSE <<cur>> \o SplitFrom(s, i + 1, <<>>)
         ELSE SplitFrom(s, i + 1, Append(cur, s[i]))

SplitLines(s) == SplitFrom(s, 1, <<>>)

(***************************************************************************)
(* Floats as exact decimals                                                *)
(***************************************************************************)
\* The decimal n/d with the trailing zeros of its fraction removed, so that
\* equal numbers are equal records.
RECURSIVE Norm(_, _)
Norm(n, d) ==
    IF d > 1 /\ n % 10 = 0 THEN Norm(n \div 10, d \div 10)
    ELSE [n |-> n, d |-> d]

Zero == [n |-> 0, d |-> 1]

Num(k) == [n |-> k, d |-> 1]

RatLess(a, b) == a.n * b.d < b.n * a.d

RatLeq(a, b) == a.n * b.d <= b.n * a.d

RatAdd(a, b) == Norm(a.n * b.d + b.n * a.d, a.d * b.d)

RatMul(a, b) == Norm(a.n * b.n, a.d * b.d)

\* a / k for k a power of ten
RatDiv(a, k) == Norm(a.n, a.d * k)

RatNeg(a) == [n |-> 0 - a.n, d |-> a.d]

\* max(a, b) of Python: b only when b > a
RatMax(a, b) == IF RatLess(a, b) THEN b ELSE a

\* bool(x) of a float
Truthy(a) == a.n # 0

\* The value of a run of digits, and the number of digits.
RECURSIVE DigitsValue(_)
DigitsValue(ds) ==
    IF ds = <<>> THEN 0
    ELSE 10 * DigitsValue(SubSeq(ds, 1, Len(ds) - 1)) + DigitVal(ds[Len(ds)])

RECURSIVE Pow10(_)
Pow10(k) == IF k = 0 THEN 1 ELSE 10 * Pow10(k - 1)

\* s is digits with at most one "." and at least one digit: what float()
\* accepts of a string of digits and dots.
IsDecimal(s) ==
    /\ \A i \in 1..Len(s) : IsDigit(s[i]) \/ s[i] = "."
    /\ \E i \in 1..Len(s) : IsDigit(s[i])
    /\ Cardinality({i \in 1..Len(s) : s[i] = "."}) <= 1

\* float(s) for such a string.
DecimalValue(s) ==
    LET ds == SelectSeq(s, IsDigit)
        dot == IF \E i \in 1..Len(s) : s[i] = "."
               THEN CHOOSE i \in 1..Len(s) : s[i] = "."
               ELSE Len(s) + 1
        frac == IF dot > Len(s) THEN 0 ELSE Len(s) - dot
    IN  Norm(DigitsValue(ds), Pow10(frac))

(***************************************************************************)
(* Raw values.  A spreadsheet cell or form field is                        *)
(*   [kind |-> "none"]  None (a column the sheet does not have),           *)
(*   [kind |-> "nan"]   an empty cell (float NaN),                         *)
(*   [kind |-> "num", val |-> decimal]  a numeric cell,                    *)
(*   [kind |-> "str", chars |-> text]   a string.                          *)
(***************************************************************************)
None == [kind |-> "none"]

NaN == [kind |-> "nan"]

NumCell(v) == [kind |-> "num", val |-> v]

Str(s) == [kind |-> "str", chars |-> s]

\* The decimal digits of a natural number.
RECURSIVE IntDigits(_)
IntDigits(k) ==
    IF k < 10 THEN <<Digits[k + 1]>>
    ELSE Append(IntDigits(k \div 10), Digits[(k % 10) + 1])

\* The digits of k, left-padded with zeros to w digits.
RECURSIVE PadDigits(_, _)
PadDigits(k, w) ==
    IF w = 0 THEN <<>> ELSE Append(PadDigits(k \div 10, w - 1), Digits[(k % 10) + 1])

RECURSIVE Log10(_)
Log10(d) == IF d = 1 THEN 0 ELSE 1 + Log10(d \div 10)

\* str(x) of a float in the range where Python prints no exponent.
FloatStr(a) ==
    LET m == IF a.n < 0 THEN 0 - a.n ELSE a.n
        sign == IF a.n < 0 THEN <<"-">> ELSE <<>>
        frac == IF a.d = 1 THEN <<"0">> ELSE PadDigits(m % a.d, Log10(a.d))
    IN  sign \o IntDigits(m \div a.d) \o <<".">> \o frac

\* str(value)
PyStr(value) ==
    CASE value.kind = "none" -> <<"N", "o", "n", "e">>
      [] value.kind = "nan" -> <<"n", "a", "n">>
      [] value.kind = "num" -> FloatStr(value.val)
      [] value.kind = "str" -> value.chars

\* re.sub(r"[^0-9.]", "", text)
KeepDigitsAndDots(text) == SelectSeq(text, LAMBDA c : IsDigit(c) \/ c = ".")

parse_number(value) ==
    IF value.kind = "none" THEN Zero
    ELSE IF value.kind = "num" THEN value.val
    ELSE LET text == KeepDigitsAndDots(PyStr(value))
         IN  IF text = <<>> THEN Zero
             ELSE IF IsDecimal(text) THEN DecimalValue(text)
             ELSE Zero

Placeholders == {<<"n", "a", "n">>, <<"n", "o", "n", "e">>, <<"0">>}

normalize_text(value) ==
    IF value.kind = "none" THEN <<>>
    ELSE LET text == Strip(PyStr(value))
         IN  IF text = <<>> \/ Lower(text) \in Placeholders THEN <<>> ELSE text

(***************************************************************************)
(* The cards table.  cards is the sequence of its rows in rowid order; a   *)
(* row's id is its position (AUTOINCREMENT, and nothing deletes).          *)
(***************************************************************************)
TextColumns == {"card_category", "sub_category", "program", "bank_name", "product",
                "value_metric", "value_calculation", "provider", "extra_fees",
                "core_perks", "secondary_perks", "extra_perks", "card_type",
                "current_offer", "product_page", "old_notes"}

NumberColumns == {"minimum_salary", "annual_fee", "joining_fee"}

Columns == TextColumns \cup NumberColumns

\* The row the INSERT of admin_add_card and of seed_from_excel writes, from
\* the raw value of each column.
InsertedRow(id, raw) ==
    [c \in Columns \cup {"id"} |->
        IF c = "id" THEN id
        ELSE IF c \in NumberColumns THEN parse_number(raw[c])
        ELSE normalize_text(raw[c])]

(***************************************************************************)
(* Bounds of the model                                                     *)
(***************************************************************************)
\* The most rows the table holds.
MaxCards == 2

(***************************************************************************)
(* admin_add_card: the submitted form gives every column a string (the     *)
(* default of a field left out is "").                                     *)
(***************************************************************************)
BlankForm == [c \in Columns |-> Str(<<>>)]

\* The forms an administrator submits in the model.
AdminForms ==
    { [BlankForm EXCEPT !["card_category"] = Str(<<"T", "r", "a", "v", "e", "l">>),
                        !["product"] = Str(<<"Z", "e", "t", "a">>),
                        !["minimum_salary"] = Str(<<"A", "E", "D", " ", "1", "0", ",", "0", "0",
                                "0">>),
                        !["annual_fee"] = Str(<<"0">>),
                        !["core_perks"] = Str(<<"2", "%", " ", "c", "a", "s", "h", "b", "a",
                                "c", "k", " ", "o", "n", " ", "f", "l", "i", "g", "h", "t", "s">>)],
      [BlankForm EXCEPT !["card_category"] = Str(<<" ", "T", "r", "a", "v", "e", "l", " ">>),
                        !["product"] = Str(<<"A", "l", "p", "h", "a">>),
                        !["bank_name"] = Str(<<" ", "G", "o", "l", "d", " ">>),
                        !["minimum_salary"] = Str(<<"5", "0", "0", "0">>),
                        !["annual_fee"] = Str(<<"A", "E", "D", " ", "3", "0", "0">>),
                        !["core_perks"] = Str(<<"2", "%", " ", "B", "a", "c", "k", " ", "o",
                                "n", " ", "h", "o", "t", "e", "l">>),
                        !["secondary_perks"] = Str(<<"L", "o", "u", "n", "g", "e", " ", "a",
                                "c", "c", "e", "s", "s">>)],
      [BlankForm EXCEPT !["card_category"] = Str(<<"T", "r", "a", "v", "e", "l">>),
                        !["sub_category"] = Str(<<"A", "i", "r", "l", "i", "n", "e">>),
                        !["product"] = Str(<<"A", "l", "p", "h", "a">>),
                        !["provider"] = Str(<<"N", "a", "N">>),
                        !["minimum_salary"] = Str(<<"1", ".", "2", ".", "3">>),
                        !["joining_fee"] = Str(<<"-", "5", "0">>),
                        !["extra_perks"] = Str(<<" ", "n", "o", "n", "e">>),
                        !["card_type"] = Str(<<"M", "e", "t", "a", "l">>)],
      [BlankForm EXCEPT !["card_category"] = Str(<<"T", "r", "a", "v", "e", "l">>),
                        !["product"] = Str(<<"B", "e", "t", "a">>),
                        !["minimum_salary"] = Str(<<"2", "0", "0", "0", "0">>),
                        !["annual_fee"] = Str(<<"a", "b", "c">>),
                        !["old_notes"] = Str(<<"0">>),
                        !["core_perks"] = Str(<<"V", "a", "l", "e", "t", " ", "p", "a", "r",
                                "k", "i", "n", "g", "\n", "5", "%", " ", "c", "a", "s", "h",
                                "b", "a", "c", "k", " ", "o", "n", " ", "a", "l", "l", " ", "o",
                                "t", "h", "e", "r", " ", "s", "p", "e", "n", "d", "s">>)],
      [BlankForm EXCEPT !["card_category"] = Str(<<"S", "h", "o", "p", "p", "i", "n", "g">>),
                        !["product"] = Str(<<"0">>),
                        !["minimum_salary"] = Str(<<"8", "0", "0", "0">>),
                        !["annual_fee"] = Str(<<"9", "9", ".", "5">>),
                        !["core_perks"] = Str(<<"3", " ", "%", " ", "b", "a", "c", "k">>)] }

admin_add_card(form) ==
    /\ Len(cards) < MaxCards
    /\ cards' = Append(cards, InsertedRow(Len(cards) + 1, form))
    /\ UNCHANGED <<req, call>>

(***************************************************************************)
(* seed_from_excel.  A sheet is [columns |-> the columns it has,           *)
(* rows |-> its rows, each a function from those columns to cells]; the    *)
(* columns carry the names of the table's columns they are written to.     *)
(***************************************************************************)
\* df.dropna(how="all")
DropAllNaN(sheet, rows) ==
    SelectSeq(rows, LAMBDA r : \E c \in sheet.columns : r[c].kind # "nan")

\* df[col].notna(), then df[col].astype(str).str.strip().ne(header)
KeepCategoryRows(sheet, rows) ==
    IF "card_category" \in sheet.columns
    THEN SelectSeq(rows, LAMBDA r :
            /\ r["card_category"].kind # "nan"
            /\ Strip(PyStr(r["card_category"])) # <<"C", "a", "r", "d", " ", "C", "a", "t", "e",
                    "g", "o", "r", "y">>)
    ELSE rows

KeepSubCategoryRows(sheet, rows) ==
    IF "sub_category" \in sheet.columns
    THEN SelectSeq(rows, LAMBDA r : Strip(PyStr(r["sub_category"])) # <<"S", "u", "b", " ", "C",
            "a", "t", "e", "g", "o", "r", "y">>)
    ELSE rows

\* df.fillna(""), then row.get(column) for each column of the table.
RowGet(sheet, r) ==
    [c \in Columns |->
        IF c \notin sheet.columns THEN None
        ELSE IF r[c].kind = "nan" THEN Str(<<>>)
        ELSE r[c]]

SeedRows(sheet) ==
    LET kept == KeepSubCategoryRows(sheet,
                    KeepCategoryRows(sheet, DropAllNaN(sheet, sheet.rows)))
    IN  [i \in 1..Len(kept) |-> InsertedRow(i, RowGet(sheet, kept[i]))]

BlankRow == [c \in Columns |-> NaN]

\* The spreadsheets the application starts with in the model.
Sheets ==
    { [columns |-> Columns,
       rows |-> << [BlankRow EXCEPT !["card_category"] = Str(<<"C", "a", "r", "d", " ", "C",
               "a", "t", "e", "g", "o", "r", "y">>),
                                    !["product"] = Str(<<"P", "r", "o", "d", "u", "c", "t">>)],
                   [BlankRow EXCEPT !["card_category"] = Str(<<"T", "r", "a", "v", "e", "l">>),
                                    !["product"] = Str(<<"S", "e", "e", "d", "e", "d">>),
                                    !["minimum_salary"] = NumCell(Num(5000)),
                                    !["annual_fee"] = NumCell(RatNeg(Num(100))),
                                    !["core_perks"] = Str(<<"2", "%", " ", "c", "a", "s", "h",
                                            "b", "a", "c", "k", " ", "o", "n", " ", "f", "l",
                                            "i", "g", "h", "t", "s">>)],
                   BlankRow >>],
      [columns |-> Columns \ {"sub_category", "joining_fee", "old_notes"},
       rows |-> << [c \in Columns \ {"sub_category", "joining_fee", "old_notes"} |->
                      CASE c = "card_category" -> Str(<<"T", "r", "a", "v", "e", "l">>)
                        [] c = "product" -> NumCell(Num(0))
                        [] c = "minimum_salary" -> Str(<<"A", "E", "D", " ", "1", ",", "2", "5",
                                "0", ".", "5", "0">>)
                        [] c = "core_perks" -> Str(<<" ", "L", "o", "u", "n", "g", "e", " ">>)
                        [] OTHER -> NaN],
                   [c \in Columns \ {"sub_category", "joining_fee", "old_notes"} |->
                      CASE c = "product" -> Str(<<"N", "o", " ", "c", "a", "t", "e", "g", "o",
                              "r", "y">>)
                        [] OTHER -> NaN] >>] }

seed_from_excel(sheet) ==
    /\ cards = <<>>
    /\ Len(SeedRows(sheet)) <= MaxCards
    /\ cards' = SeedRows(sheet)
    /\ UNCHANGED <<req, call>>

(***************************************************************************)
(* extract_cashback_rates                                                  *)
(***************************************************************************)
TRAVEL_KEYWORDS ==
    { <<"f", "l", "i", "g", "h", "t">>, <<"f", "l", "i", "g", "h", "t", "s">>, <<"h", "o", "t",
            "e", "l">>, <<"t", "r", "a", "v", "e", "l">>, <<"a", "i", "r", "l", "i", "n",
            "e">>, <<"a", "i", "r", "l", "i", "n", "e", "s">>,
      <<"b", "o", "o", "k", "i", "n", "g">>, <<"c", "l", "e", "a", "r", "t", "r", "i",
              "p">>, <<"b", "o", "o", "k", "i", "n", "g", ".", "c", "o", "m">> }

OTHER_SPEND_KEYWORDS ==
    { <<"a", "l", "l", " ", "o", "t", "h", "e", "r">>, <<"a", "l", "l", " ", "o", "t", "h", "e",
            "r", " ", "d", "o", "m", "e", "s", "t", "i", "c">>, <<"o", "t", "h", "e", "r", " ",
            "s", "p", "e", "n", "d", "s">>, <<"o", "t", "h", "e", "r", " ", "s", "p", "e", "n",
            "d">> }

\* The position after the longest run of digits that starts at i (\d+).
RECURSIVE DigitsEnd(_, _)
DigitsEnd(s, i) ==
    IF i <= Len(s) /\ IsDigit(s[i]) THEN DigitsEnd(s, i + 1) ELSE i

\* The position after the longest run of white space that starts at i (\s*).
RECURSIVE SpacesEnd(_, _)
SpacesEnd(s, i) ==
    IF i <= Len(s) /\ IsSpace(s[i]) THEN SpacesEnd(s, i + 1) ELSE i

\* \s*%\s*(?:cashback|back) from position k: the position after it, or 0.
SuffixEnd(s, k) ==
    LET p == SpacesEnd(s, k)
        w == SpacesEnd(s, p + 1)
    IN  IF ~(p <= Len(s) /\ s[p] = "%") THEN 0
        ELSE IF StartsWith(s, w, <<"c", "a", "s", "h", "b", "a", "c", "k">>) THEN w + 8
        ELSE IF StartsWith(s, w, <<"b", "a", "c", "k">>) THEN w + 4
        ELSE 0

\* The pattern (\d+(?:\.\d+)?)\s*%\s*(?:cashback|back) tried at position i:
\* [found, rate |-> float(group 1), end |-> the position after the match].
\* \d+ is greedy; the fraction is tried first and given up if what follows
\* it does not match.  A shorter run of digits never matches, as a digit
\* would follow it.
MatchAt(s, i) ==
    LET j == DigitsEnd(s, i)
        k == IF j <= Len(s) /\ s[j] = "." THEN DigitsEnd(s, j + 1) ELSE j
        withFraction == j > i /\ k > j + 1 /\ SuffixEnd(s, k) # 0
        withoutFraction == j > i /\ SuffixEnd(s, j) # 0
    IN  IF withFraction
        THEN [found |-> TRUE, rate |-> DecimalValue(SubSeq(s, i, k - 1)),
              end |-> SuffixEnd(s, k)]
        ELSE IF withoutFraction
        THEN [found |-> TRUE, rate |-> DecimalValue(SubSeq(s, i, j - 1)),
              end |-> SuffixEnd(s, j)]
        ELSE [found |-> FALSE, rate |-> Zero, end |-> i]

\* re.finditer over a line: the rates of the matches, left to right, each
\* search starting where the last match ended.
RECURSIVE FindRates(_, _)
FindRates(line, i) ==
    IF i > Len(line) THEN <<>>
    ELSE IF MatchAt(line, i).found
         THEN <<MatchAt(line, i).rate>> \o FindRates(line, MatchAt(line, i).end)
         ELSE FindRates(line, i + 1)

\* The branch of the if / elif / else a match on this line takes.
LineCategory(line) ==
    IF \E keyword \in TRAVEL_KEYWORDS : Contains(line, keyword) THEN "travel"
    ELSE IF \E keyword \in OTHER_SPEND_KEYWORDS : Contains(line, keyword) THEN "other"
    ELSE "general"

\* The rates added up instead of the greatest kept.
FoldRateSum(rates, category, rate) ==
    [rates EXCEPT ![category] = RatAdd(rates[category], rate)]

\* One pass of the inner loop: the rate of one match folded into the rates.
FoldRate(rates, category, rate) ==
    [rates EXCEPT ![category] = RatMax(rates[category], rate)]

RECURSIVE FoldLine(_, _, _)
FoldLine(rates, category, found) ==
    IF found = <<>> THEN rates
    ELSE FoldLine(FoldRate(rates, category, Head(found)), category, Tail(found))

RECURSIVE FoldLines(_, _)
FoldLines(rates, lines) ==
    IF lines = <<>> THEN rates
    ELSE FoldLines(FoldLine(rates, LineCategory(Head(lines)), FindRates(Head(lines), 1)),
                   Tail(lines))

NoRates == [travel |-> Zero, other |-> Zero, general |-> Zero]

extract_cashback_rates(text) ==
    IF text = <<>> THEN NoRates
    ELSE FoldLines(NoRates, SplitLines(Lower(text)))

(***************************************************************************)
(* detect_features                                                         *)
(***************************************************************************)
Features ==
    { <<"C", "i", "n", "e", "m", "a", " ", "O", "f", "f", "e", "r", "s">>, <<"A", "i", "r", "p",
            "o", "r", "t", " ", "L", "o", "u", "n", "g", "e", " ", "A", "c", "c", "e", "s",
            "s">>, <<"V", "a", "l", "e", "t", " ", "P", "a", "r", "k", "i", "n", "g">>,
      <<"C", "o", "m", "p", "l", "e", "m", "e", "n", "t", "a", "r", "y", " ", "G", "o", "l",
              "f">>, <<"M", "e", "t", "a", "l", " ", "C", "a", "r", "d">>, <<"A", "i", "r", "p",
              "o", "r", "t", " ", "T", "r", "a", "n", "s", "f", "e", "r", "s">> }

FEATURE_KEYWORDS ==
    [feature \in Features |->
        CASE feature = <<"C", "i", "n", "e", "m", "a", " ", "O", "f", "f", "e", "r", "s">> ->
                { <<"c", "i", "n", "e", "m", "a">>, <<"m", "o", "v", "i", "e">>, <<"v", "o",
                        "x">>, <<"r", "o", "x", "y">>, <<"r", "e", "e", "l">> }
          [] feature = <<"A", "i", "r", "p", "o", "r", "t", " ", "L", "o", "u", "n", "g", "e",
                  " ", "A", "c", "c", "e", "s", "s">> -> { <<"l", "o", "u", "n", "g", "e">> }
          [] feature = <<"V", "a", "l", "e", "t", " ", "P", "a", "r", "k", "i", "n",
                  "g">> -> { <<"v", "a", "l", "e", "t">> }
          [] feature = <<"C", "o", "m", "p", "l", "e", "m", "e", "n", "t", "a", "r", "y", " ",
                  "G", "o", "l", "f">> -> { <<"g", "o", "l", "f">> }
          [] feature = <<"M", "e", "t", "a", "l", " ", "C", "a", "r", "d">> -> { <<"m", "e",
                  "t", "a", "l">> }
          [] feature = <<"A", "i", "r", "p", "o", "r", "t", " ", "T", "r", "a", "n", "s", "f",
                  "e", "r", "s">> ->
                { <<"a", "i", "r", "p", "o", "r", "t", " ", "t", "r", "a", "n", "s", "f", "e",
                        "r">>, <<"a", "i", "r", "p", "o", "r", "t", " ", "t", "r", "a", "n",
                        "s", "f", "e", "r", "s">>, <<"c", "a", "r", "e", "e", "m">> }]

\* The features of the returned list, as a set (score_card makes it one).
detect_features(card_text) ==
    LET haystack == Lower(card_text)
    IN  {feature \in Features :
            \E keyword \in FEATURE_KEYWORDS[feature] : Contains(haystack, keyword)}

(***************************************************************************)
(* estimate_cashback_value.  spend is a function from bucket names to      *)
(* amounts; category is a string or None.                                  *)
(***************************************************************************)
\* sum(spend.values())
RECURSIVE SumValues(_, _)
SumValues(spend, keys) ==
    IF keys = {} THEN Zero
    ELSE LET k == CHOOSE x \in keys : TRUE
         IN  RatAdd(spend[k], SumValues(spend, keys \ {k}))

\* spend.get(key, 0.0)
SpendGet(spend, key) == IF key \in DOMAIN spend THEN spend[key] ELSE Zero

\* The key compared without folding the case.
CategoryKeyCaseSensitive(category) ==
    IF category.kind = "none" THEN <<>> ELSE Strip(category.chars)

\* (category or "").strip().lower()
CategoryKey(category) ==
    IF category.kind = "none" THEN <<>> ELSE Lower(Strip(category.chars))

\* base_spend * (rate / 100.0)
SpendAtRate(base_spend, rate) == RatMul(base_spend, RatDiv(rate, 100))

estimate_cashback_value(category, spend, rates) ==
    LET travel_rate == rates.travel
        other_rate == rates.other
        general_rate == rates.general
        total_spend == SumValues(spend, DOMAIN spend)
        category_key == CategoryKey(category)
        base_spend == IF category_key = <<"s", "h", "o", "p", "p", "i", "n",
                "g">> THEN SpendGet(spend, "retail")
                      ELSE total_spend
        best_rate == RatMax(RatMax(travel_rate, other_rate), general_rate)
    IN  IF category_key = <<"t", "r", "a", "v", "e", "l">>
        THEN LET travel_base == RatAdd(SpendGet(spend, "travel"), SpendGet(spend, "foreign"))
             IN  IF RatLess(Zero, travel_rate) THEN SpendAtRate(travel_base, travel_rate)
                 ELSE IF RatLess(Zero, general_rate)
                      THEN SpendAtRate(travel_base, general_rate)
                 ELSE Zero
        ELSE IF RatLeq(best_rate, Zero) THEN Zero
        ELSE SpendAtRate(base_spend, best_rate)

(***************************************************************************)
(* score_card.  selected_features is a sequence of strings.                *)
(***************************************************************************)
\* The bonus of one matched feature.
FeatureBonus == 15

\* The divisor of the minimum salary in the score of a card with no value.
TierDivisor == 1000

\* The text of the perks and the card type, the product name left out.
text_blockWithoutProduct(card) ==
    Join(<<" ">>, <<card.core_perks, card.secondary_perks, card.extra_perks,
                    card.card_type>>)

\* " ".join([core_perks, secondary_perks, extra_perks, card_type, product])
text_block(card) ==
    Join(<<" ">>, <<card.core_perks, card.secondary_perks, card.extra_perks,
                    card.card_type, card.product>>)

\* set([feature.strip() for feature in selected_features if feature])
requested_features(selected_features) ==
    {Strip(selected_features[i]) :
        i \in {j \in 1..Len(selected_features) : selected_features[j] # <<>>}}

\* The score with the value added whatever its sign.
ScoreOfValueOnly(cashback_value, minimum_salary, feature_hits) ==
    RatAdd(cashback_value, Num(Cardinality(feature_hits) * FeatureBonus))

\* The score of a card with this value, minimum salary and feature hits.
ScoreOf(cashback_value, minimum_salary, feature_hits) ==
    LET feature_bonus == Num(Cardinality(feature_hits) * FeatureBonus)
    IN  IF RatLess(Zero, cashback_value) THEN RatAdd(cashback_value, feature_bonus)
        ELSE RatAdd(RatDiv(minimum_salary, TierDivisor), feature_bonus)

score_card(card, category, spend, selected_features) ==
    LET cashback_rates == extract_cashback_rates(text_block(card))
        cashback_value == estimate_cashback_value(category, spend, cashback_rates)
        matched_features == detect_features(text_block(card))
        feature_hits == matched_features \cap requested_features(selected_features)
    IN  [score |-> ScoreOf(cashback_value, card.minimum_salary, feature_hits),
         cashback_value |-> cashback_value,
         matched_features |-> feature_hits,
         available_features |-> matched_features]

(***************************************************************************)
(* fetch_cards                                                             *)
(***************************************************************************)
\* The characters of the model in the order of their codes, by which
\* SQLite's ORDER BY compares text.
AsciiOrder ==
    <<"\t", "\n", "\f", "\r", " ", "%", "+", ",", "-", ".">> \o Digits \o UpperChars
        \o LowerChars

CharCode(c) == CHOOSE i \in 1..Len(AsciiOrder) : AsciiOrder[i] = c

\* a < b as SQLite orders text: by the first character that differs, a
\* proper prefix first.
TextLess(a, b) ==
    \E i \in 1..Len(b) :
        /\ \A k \in 1..(i - 1) : k <= Len(a) /\ a[k] = b[k]
        /\ \/ i = Len(a) + 1
           \/ i <= Len(a) /\ CharCode(a[i]) < CharCode(b[i])

\* row placed after the rows of sorted that do not come after it.
RECURSIVE InsertByProduct(_, _)
InsertByProduct(sorted, row) ==
    IF sorted = <<>> THEN <<row>>
    ELSE IF TextLess(row.product, Head(sorted).product) THEN <<row>> \o sorted
    ELSE <<Head(sorted)>> \o InsertByProduct(Tail(sorted), row)

\* ORDER BY product; rows with the same product stay in rowid order, which
\* is what SQLite's sorter returns for one table and one query.
RECURSIVE OrderByProduct(_)
OrderByProduct(rows) ==
    IF rows = <<>> THEN <<>>
    ELSE InsertByProduct(OrderByProduct(SubSeq(rows, 1, Len(rows) - 1)), rows[Len(rows)])

\* The WHERE clause: " AND key = ?" for every filter with a value.
MatchesFilters(row, filters) ==
    \A key \in DOMAIN filters : filters[key] = <<>> \/ row[key] = filters[key]

\* fetch_cards(filters) on the table as it is when the query runs.
fetch_cards(table, filters) ==
    OrderByProduct(SelectSeq(table, LAMBDA row : MatchesFilters(row, filters)))

(***************************************************************************)
(* The request body of api_recommend.  A JSON value is a raw value (None   *)
(* for null, "num", "str") or                                              *)
(*   [kind |-> "absent"]  the key is not in the body,                      *)
(*   [kind |-> "bool", val |-> b], [kind |-> "list", items |-> sequence],  *)
(*   [kind |-> "dict", items |-> function from keys to JSON values].       *)
(***************************************************************************)
Absent == [kind |-> "absent"]

Bool(b) == [kind |-> "bool", val |-> b]

List(items) == [kind |-> "list", items |-> items]

Dict(items) == [kind |-> "dict", items |-> items]

\* bool(v) of Python
PyTruthy(v) ==
    CASE v.kind \in {"absent", "none"} -> FALSE
      [] v.kind = "num" -> Truthy(v.val)
      [] v.kind = "str" -> v.chars # <<>>
      [] v.kind = "bool" -> v.val
      [] v.kind = "list" -> v.items # <<>>
      [] v.kind = "dict" -> DOMAIN v.items # {}

\* float(s) of a string: white space stripped, an optional sign, digits with
\* at most one point.  (The model's strings hold no exponent, "inf" or "nan".)
FloatOfString(s) ==
    LET t == Strip(s)
        signed == t # <<>> /\ t[1] \in {"+", "-"}
        body == IF signed THEN Tail(t) ELSE t
    IN  IF ~IsDecimal(body) THEN [raises |-> "ValueError"]
        ELSE [raises |-> "", val |-> IF signed /\ t[1] = "-"
                                    THEN RatNeg(DecimalValue(body))
                                    ELSE DecimalValue(body)]

\* float(v or 0)
FloatOrZero(v) ==
    IF ~PyTruthy(v) THEN [raises |-> "", val |-> Zero]
    ELSE CASE v.kind = "num" -> [raises |-> "", val |-> v.val]
           [] v.kind = "bool" -> [raises |-> "", val |-> Num(1)]
           [] v.kind = "str" -> FloatOfString(v.chars)
           [] OTHER -> [raises |-> "TypeError"]

\* payload.get(key, "").strip()
StrippedField(v) ==
    IF v.kind = "absent" THEN [raises |-> "", val |-> <<>>]
    ELSE IF v.kind = "str" THEN [raises |-> "", val |-> Strip(v.chars)]
    ELSE [raises |-> "AttributeError"]

Buckets == {"travel", "retail", "utilities", "food_groceries", "fuel",
            "transportation", "real_estate", "foreign"}

\* spend.get(bucket) of payload.get("spend") or {}
SpendEntry(spend, bucket) ==
    IF ~PyTruthy(spend) THEN None
    ELSE IF bucket \in DOMAIN spend.items THEN spend.items[bucket]
    ELSE None

\* The first exception of a sequence of evaluations, "" if none raises.
RECURSIVE FirstRaise(_)
FirstRaise(results) ==
    IF results = <<>> THEN ""
    ELSE IF Head(results).raises # "" THEN Head(results).raises
    ELSE FirstRaise(Tail(results))

\* The order in which spend_values evaluates its buckets.
BucketOrder == <<"travel", "retail", "utilities", "food_groceries", "fuel",
                 "transportation", "real_estate", "foreign">>

\* Lines 409 to 426: the locals of the handler, or the exception raised.
ParsePayload(payload) ==
    LET category == StrippedField(payload.category)
        sub_category == StrippedField(payload.sub_category)
        program == StrippedField(payload.program)
        income == FloatOrZero(payload.income)
        spend == payload.spend
        spendIsDict == ~PyTruthy(spend) \/ spend.kind = "dict"
        amount == [b \in Buckets |->
                        IF spendIsDict THEN FloatOrZero(SpendEntry(spend, b))
                        ELSE [raises |-> "AttributeError"]]
        amounts == [i \in 1..Len(BucketOrder) |-> amount[BucketOrder[i]]]
        raised == FirstRaise(<<category, sub_category, program, income>> \o amounts)
    IN  IF raised # "" THEN [raises |-> raised]
        ELSE [raises |-> "",
              category |-> category.val,
              sub_category |-> sub_category.val,
              program |-> program.val,
              income |-> income.val,
              annual_fee_ok |-> IF payload.annual_fee_ok.kind = "absent" THEN TRUE
                                ELSE PyTruthy(payload.annual_fee_ok),
              spend_values |-> [b \in Buckets |-> amount[b].val],
              selected_features |-> IF PyTruthy(payload.features)
                                    THEN payload.features.items ELSE <<>>]

(***************************************************************************)
(* api_recommend, in the steps between which other requests can run: the   *)
(* body is parsed, the table is read once by fetch_cards, the rows are     *)
(* filtered, and the eligible rows are scored and ranked.                  *)
(* req[r] holds the handler's locals for request slot r:                   *)
(*   pc        "idle", "parsed", "fetched", "filtered", "done" (a response *)
(*             was returned) or "raised" (an exception left the handler),  *)
(*   payload   the request body,                                           *)
(*   locals    what ParsePayload made of it,                               *)
(*   rows      the list fetch_cards returned (the local "cards"),          *)
(*   eligible  the local "eligible",                                       *)
(*   response  the value returned, or the exception,                       *)
(*   snap      the table as it was when fetch_cards read it (history).     *)
(***************************************************************************)
NoPayload == [category |-> Absent, sub_category |-> Absent, program |-> Absent,
              income |-> Absent, annual_fee_ok |-> Absent, spend |-> Absent,
              features |-> Absent]

NoResponse == [kind |-> "pending"]

Idle == [pc |-> "idle", payload |-> NoPayload, locals |-> [raises |-> ""],
         rows |-> <<>>, eligible |-> <<>>, response |-> NoResponse, snap |-> <<>>]

NoMatchReason == "No cards match that category or partner yet."

NotEligibleReason == "No cards match your income or annual fee preference."

\* The two "continue" tests of the eligibility loop.
Excluded(card, income, annual_fee_ok) ==
    \/ Truthy(income) /\ Truthy(card.minimum_salary)
          /\ RatLess(income, card.minimum_salary)
    \/ ~annual_fee_ok /\ Truthy(card.annual_fee) /\ RatLess(Zero, card.annual_fee)

\* The handler querying the table again instead of using its list.
RequeriedCards(r) ==
    fetch_cards(cards, [card_category |-> req[r].locals.category,
                        sub_category |-> req[r].locals.sub_category,
                        program |-> req[r].locals.program])

\* The rows the handler iterates over: its local list, never the table.
LocalCards(r) == req[r].rows

\* feature.strip() raises for a feature that is truthy and no string.
FeaturesRaise(selected_features) ==
    \E i \in 1..Len(selected_features) :
        PyTruthy(selected_features[i]) /\ selected_features[i].kind # "str"

\* The features as strings; score_card skips the falsy ones.
FeatureStrings(selected_features) ==
    [i \in 1..Len(selected_features) |->
        IF selected_features[i].kind = "str" THEN selected_features[i].chars ELSE <<>>]

\* An unstable descending sort: item placed before the items of equal score.
RECURSIVE InsertByScoreUnstable(_, _)
InsertByScoreUnstable(ranked, item) ==
    IF ranked = <<>> THEN <<item>>
    ELSE IF RatLeq(Head(ranked).meta.score, item.meta.score) THEN <<item>> \o ranked
    ELSE <<Head(ranked)>> \o InsertByScoreUnstable(Tail(ranked), item)

\* item placed after the items of ranked whose score is not lower.
RECURSIVE InsertByScore(_, _)
InsertByScore(ranked, item) ==
    IF ranked = <<>> THEN <<item>>
    ELSE IF RatLess(Head(ranked).meta.score, item.meta.score) THEN <<item>> \o ranked
    ELSE <<Head(ranked)>> \o InsertByScore(Tail(ranked), item)

\* ranked.sort(key=lambda item: item[0], reverse=True): descending, and
\* stable (items of equal score keep their order).
RECURSIVE SortByScore(_)
SortByScore(ranked) ==
    IF ranked = <<>> THEN <<>>
    ELSE InsertByScore(SortByScore(SubSeq(ranked, 1, Len(ranked) - 1)),
                       ranked[Len(ranked)])

\* The loop of lines 446-448: every eligible card with its score.
RECURSIVE ScoreAll(_, _)
ScoreAll(eligible, locals) ==
    IF eligible = <<>> THEN <<>>
    ELSE <<[meta |-> score_card(Head(eligible), Str(locals.category),
                                locals.spend_values,
                                FeatureStrings(locals.selected_features)),
            card |-> Head(eligible)]>>
         \o ScoreAll(Tail(eligible), locals)

\* The columns of the best card the response carries.
ResponseColumns == {"id", "card_category", "sub_category", "program", "bank_name",
                    "product", "minimum_salary", "annual_fee", "value_metric",
                    "value_calculation", "core_perks", "secondary_perks",
                    "extra_perks", "card_type", "current_offer", "product_page"}

CardResponse(best) ==
    [kind |-> "card",
     card |-> [c \in ResponseColumns |-> best.card[c]],
     score |-> best.meta.score,
     cashback_value |-> best.meta.cashback_value,
     matched_features |-> best.meta.matched_features,
     available_features |-> best.meta.available_features]

NoneResponse(reason) == [kind |-> "none", reason |-> reason]

\* A request arrives in a free slot, and lines 409-426 run.
Parse(r, payload) ==
    /\ req[r].pc = "idle"
    /\ LET locals == ParsePayload(payload)
       IN  req' = [req EXCEPT ![r] =
                IF locals.raises # ""
                THEN [Idle EXCEPT !.pc = "raised", !.payload = payload,
                                  !.locals = locals,
                                  !.response = [kind |-> "error",
                                                error |-> locals.raises]]
                ELSE [Idle EXCEPT !.pc = "parsed", !.payload = payload,
                                  !.locals = locals]]
    /\ UNCHANGED <<cards, call>>

\* The fetch without the test for an empty list of lines 430-431.
FetchWithoutEmptyTest(r) ==
    /\ req[r].pc = "parsed"
    /\ req' = [req EXCEPT ![r] =
            [@ EXCEPT !.pc = "fetched", !.snap = cards,
                      !.rows = fetch_cards(cards,
                                  [card_category |-> req[r].locals.category,
                                   sub_category |-> req[r].locals.sub_category,
                                   program |-> req[r].locals.program])]]
    /\ UNCHANGED <<cards, call>>

\* Lines 428-431.
Fetch(r) ==
    /\ req[r].pc = "parsed"
    /\ LET filters == [card_category |-> req[r].locals.category,
                       sub_category |-> req[r].locals.sub_category,
                       program |-> req[r].locals.program]
           rows == fetch_cards(cards, filters)
       IN  req' = [req EXCEPT ![r] =
                IF rows = <<>>
                THEN [@ EXCEPT !.pc = "done", !.snap = cards,
                               !.response = NoneResponse(NoMatchReason)]
                ELSE [@ EXCEPT !.pc = "fetched", !.snap = cards, !.rows = rows]]
    /\ UNCHANGED <<cards, call>>

\* Lines 433-443.
Filter(r) ==
    /\ req[r].pc = "fetched"
    /\ LET eligible == SelectSeq(LocalCards(r), LAMBDA card :
                          ~Excluded(card, req[r].locals.income,
                                    req[r].locals.annual_fee_ok))
       IN  req' = [req EXCEPT ![r] =
                IF eligible = <<>>
                THEN [@ EXCEPT !.pc = "done",
                               !.response = NoneResponse(NotEligibleReason)]
                ELSE [@ EXCEPT !.pc = "filtered", !.eligible = eligible]]
    /\ UNCHANGED <<cards, call>>

\* Lines 445-478.
Rank(r) ==
    /\ req[r].pc = "filtered"
    /\ LET locals == req[r].locals
           ranked == ScoreAll(req[r].eligible, locals)
       IN  req' = [req EXCEPT ![r] =
                IF FeaturesRaise(locals.selected_features)
                THEN [@ EXCEPT !.pc = "raised",
                               !.response = [kind |-> "error",
                                             error |-> "AttributeError"]]
                ELSE [@ EXCEPT !.pc = "done",
                               !.response = CardResponse(SortByScore(ranked)[1])]]
    /\ UNCHANGED <<cards, call>>

(***************************************************************************)
(* The application: catalog writes and one recommend request at a time.    *)
(***************************************************************************)
TravelSpend == Dict([travel |-> NumCell(Num(1000))])

\* The request bodies of the model.
Payloads ==
    { [NoPayload EXCEPT !.category = c, !.income = i, !.annual_fee_ok = a,
                        !.spend = TravelSpend] :
        c \in {Absent, Str(<<"T", "r", "a", "v", "e", "l", " ">>), Str(<<"S", "h", "o", "p",
                "p", "i", "n", "g">>)},
        i \in {Absent, NumCell(RatNeg(Num(1))), NumCell(Num(8000)), Str(<<" ", "1", "0", "0",
                "0", "0">>),
               Str(<<"a", "b", "c">>), List(<<>>)},
        a \in {Absent, Bool(FALSE)} }
    \cup
    { [NoPayload EXCEPT !.category = c, !.annual_fee_ok = a, !.spend = TravelSpend,
                        !.features = List(<<Str(<<" ", "M", "e", "t", "a", "l", " ", "C", "a",
                                "r", "d", " ">>), Str(<<>>),
                                            Str(<<"A", "i", "r", "p", "o", "r", "t", " ", "L",
                                                    "o", "u", "n", "g", "e", " ", "A", "c", "c",
                                                    "e", "s", "s">>)>>)] :
        c \in {Absent, Str(<<"T", "r", "a", "v", "e", "l">>)}, a \in {Absent, Bool(FALSE)} }
    \cup
    { [NoPayload EXCEPT !.category = Str(<<"T", "r", "a", "v", "e",
            "l">>), !.sub_category = Str(<<" ", "A", "i", "r", "l", "i", "n", "e">>),
                        !.features = List(<<Str(<<"M", "e", "t", "a", "l", " ", "C", "a", "r",
                                "d">>)>>)],
      [NoPayload EXCEPT !.category = Str(<<"T", "r", "a", "v", "e",
              "l">>), !.income = Str(<<"8", "0", "0", "0", ".", "5">>),
                        !.spend = Dict([travel |-> Str(<<"l", "o", "t", "s">>)])],
      [NoPayload EXCEPT !.category = Str(<<"T", "r", "a", "v", "e",
              "l">>), !.spend = Dict([travel |-> List(<<>>)]),
                        !.features = List(<<NumCell(Num(5))>>)],
      [NoPayload EXCEPT !.category = None, !.income = Str(<<"a", "b", "c">>)] }

\* The response (or the exception) has left the handler; the slot is free.
Return(r) ==
    /\ req[r].pc \in {"done", "raised"}
    /\ req' = [req EXCEPT ![r] = Idle]
    /\ UNCHANGED <<cards, call>>

NoCall == [op |-> "none"]

Init ==
    /\ cards = <<>>
    /\ req = [r \in {1} |-> Idle]
    /\ call = NoCall

Next ==
    \/ \E form \in AdminForms : admin_add_card(form)
    \/ \E sheet \in Sheets : seed_from_excel(sheet)
    \/ \E r \in DOMAIN req : \E payload \in Payloads : Parse(r, payload)
    \/ \E r \in DOMAIN req : Fetch(r)
    \/ \E r \in DOMAIN req : Filter(r)
    \/ \E r \in DOMAIN req : Rank(r)
    \/ \E r \in DOMAIN req : Return(r)

Spec == Init /\ [][Next]_vars

(***************************************************************************)
(* Claims about the recommend handler and the catalog writers (Spec)       *)
(***************************************************************************)
\* The slots in which the eligibility loop has run.
Filtered == {r \in DOMAIN req : req[r].pc \in {"filtered", "done", "raised"}
                                /\ req[r].rows # <<>>}

InEligible(r, card) == \E j \in 1..Len(req[r].eligible) : req[r].eligible[j].id = card.id

\* The exclusion rule as the specification words it: income and minimum
\* salary both above zero.
SpecExcluded(card, income, annual_fee_ok) ==
    \/ RatLess(Zero, income) /\ RatLess(Zero, card.minimum_salary)
          /\ RatLess(income, card.minimum_salary)
    \/ ~annual_fee_ok /\ RatLess(Zero, card.annual_fee)

\* C1: a card that matches the filters is left out of the eligible list if
\* and only if (income > 0 and minimum salary > 0 and income < minimum
\* salary) or (annual fees are rejected and the annual fee is > 0).
C1_ExcludedIffSpecRule ==
    \A r \in Filtered : \A i \in 1..Len(req[r].rows) :
        ~InEligible(r, req[r].rows[i])
            <=> SpecExcluded(req[r].rows[i], req[r].locals.income,
                             req[r].locals.annual_fee_ok)

\* The slots whose request returned a card.
Recommended == {r \in DOMAIN req : req[r].pc = "done" /\ req[r].response.kind = "card"}

PassesFilter(r, card) ==
    ~Excluded(card, req[r].locals.income, req[r].locals.annual_fee_ok)

ScoreIn(r, card) ==
    score_card(card, Str(req[r].locals.category), req[r].locals.spend_values,
               FeatureStrings(req[r].locals.selected_features)).score

\* C2: the card returned passed the eligibility filter, no card that passed
\* it scores higher, and of the cards that passed it with the same score it
\* is the first in the order fetch_cards returned.
C2_BestIsFirstOfHighest ==
    \A r \in Recommended :
        \E k \in 1..Len(req[r].rows) :
            /\ req[r].rows[k].id = req[r].response.card.id
            /\ PassesFilter(r, req[r].rows[k])
            /\ req[r].response.score = ScoreIn(r, req[r].rows[k])
            /\ \A j \in 1..Len(req[r].rows) :
                  PassesFilter(r, req[r].rows[j]) =>
                      /\ RatLeq(ScoreIn(r, req[r].rows[j]), req[r].response.score)
                      /\ ScoreIn(r, req[r].rows[j]) = req[r].response.score => k <= j

\* Two cards of equal, highest score passed the filter, the one inserted
\* later comes first in the fetched order, and it is the one returned.
C2_Witness ==
    \E r \in Recommended :
        \E j, k \in 1..Len(req[r].rows) :
            /\ j < k
            /\ req[r].rows[j].id > req[r].rows[k].id
            /\ PassesFilter(r, req[r].rows[j]) /\ PassesFilter(r, req[r].rows[k])
            /\ ScoreIn(r, req[r].rows[j]) = req[r].response.score
            /\ ScoreIn(r, req[r].rows[k]) = req[r].response.score
            /\ req[r].response.card.id = req[r].rows[j].id

\* The rows of the table read that match the request's non-empty filters.
MatchingIds(r) ==
    {i \in 1..Len(req[r].snap) :
        /\ req[r].locals.category \in {<<>>, req[r].snap[i].card_category}
        /\ req[r].locals.sub_category \in {<<>>, req[r].snap[i].sub_category}
        /\ req[r].locals.program \in {<<>>, req[r].snap[i].program}}

EligibleIds(r) == {i \in MatchingIds(r) : PassesFilter(r, req[r].snap[i])}

\* C3: a request that returns, returns "none" exactly when no card is
\* selected: with the no-match reason when no row matches the filters, with
\* another reason when rows match and none is eligible; and a card, with no
\* reason, when a row matches and is eligible.
C3_NoneWithDistinctReasons ==
    \A r \in DOMAIN req : req[r].pc = "done" =>
        /\ MatchingIds(r) = {} =>
              req[r].response = [kind |-> "none",
                                 reason |-> "No cards match that category or partner yet."]
        /\ MatchingIds(r) # {} /\ EligibleIds(r) = {} =>
              /\ req[r].response.kind = "none"
              /\ req[r].response.reason # "No cards match that category or partner yet."
        /\ EligibleIds(r) # {} =>
              /\ req[r].response.kind = "card"
              /\ "reason" \notin DOMAIN req[r].response
              /\ req[r].response.card.id \in EligibleIds(r)

\* Rows matched a request with a category filter, none was eligible, and the
\* request returned.
C3_Witness ==
    \E r \in DOMAIN req :
        /\ req[r].pc = "done"
        /\ req[r].locals.category # <<>>
        /\ MatchingIds(r) # {} /\ EligibleIds(r) = {}
        /\ req[r].response.kind = "none"

IsTrimmed(text) == text = <<>> \/ (~IsSpace(text[1]) /\ ~IsSpace(text[Len(text)]))

\* C7: every stored row has numeric columns that are >= 0 and text columns
\* that are empty or trimmed and no placeholder ("nan", "none", "0").
C7_RowsNormalized ==
    \A i \in 1..Len(cards) :
        /\ \A c \in NumberColumns : RatLeq(Zero, cards[i][c])
        /\ \A c \in TextColumns :
              /\ IsTrimmed(cards[i][c])
              /\ Lower(cards[i][c]) \notin {<<"n", "a", "n">>, <<"n", "o", "n", "e">>, <<"0">>}

\* A JSON value that is no number and no numeric string, sent where a
\* number is expected.
NonNumeric(v) ==
    \/ v.kind \in {"list", "dict"}
    \/ v.kind = "str" /\ v.chars # <<>> /\ FloatOfString(v.chars).raises # ""

Malformed(payload) ==
    \/ NonNumeric(payload.income)
    \/ /\ payload.spend.kind = "dict"
       /\ \E b \in DOMAIN payload.spend.items : NonNumeric(payload.spend.items[b])

\* C9: a request with a non-numeric income or spend amount is refused at
\* the boundary: it is never answered with a recommendation or a "none"
\* result computed from a default put in the place of the malformed value.
C9_MalformedNeverAnswered ==
    \A r \in DOMAIN req :
        Malformed(req[r].payload) => req[r].response.kind \notin {"card", "none"}

(***************************************************************************)
(* Concurrent requests: several request slots and the administrator.       *)
(***************************************************************************)
\* The request slots: two requests in flight, which is what a claim about
\* a request and the writers, or about a pair of requests, needs.
Slots == {1, 2}

ConcForms ==
    {f \in AdminForms : f["product"] \in {Str(<<"Z", "e", "t", "a">>), Str(<<"B", "e", "t", "a">>)}}

ConcPayloads ==
    { [NoPayload EXCEPT !.category = Str(<<"T", "r", "a", "v", "e", "l">>), !.spend = TravelSpend],
      [NoPayload EXCEPT !.category = Str(<<"T", "r", "a", "v", "e", "l">>), !.spend = TravelSpend,
                        !.income = NumCell(Num(12000)),
                        !.features = List(<<Str(<<"V", "a", "l", "e", "t", " ", "P", "a", "r",
                                "k", "i", "n", "g">>)>>)] }

InitConc ==
    /\ cards = <<>>
    /\ req = [r \in Slots |-> Idle]
    /\ call = NoCall

NextConc ==
    \/ \E form \in ConcForms : admin_add_card(form)
    \/ \E r \in DOMAIN req : \E payload \in ConcPayloads : Parse(r, payload)
    \/ \E r \in DOMAIN req : Fetch(r)
    \/ \E r \in DOMAIN req : Filter(r)
    \/ \E r \in DOMAIN req : Rank(r)
    \/ \E r \in DOMAIN req : Return(r)

SpecConc == InitConc /\ [][NextConc]_vars

\* What one request returns when it runs alone on a table that does not
\* change: the handler from top to bottom.
Recommendation(table, payload) ==
    LET locals == ParsePayload(payload)
        rows == fetch_cards(table, [card_category |-> locals.category,
                                    sub_category |-> locals.sub_category,
                                    program |-> locals.program])
        eligible == SelectSeq(rows, LAMBDA card :
                        ~Excluded(card, locals.income, locals.annual_fee_ok))
    IN  IF locals.raises # "" THEN [kind |-> "error", error |-> locals.raises]
        ELSE IF rows = <<>> THEN NoneResponse(NoMatchReason)
        ELSE IF eligible = <<>> THEN NoneResponse(NotEligibleReason)
        ELSE IF FeaturesRaise(locals.selected_features)
             THEN [kind |-> "error", error |-> "AttributeError"]
        ELSE CardResponse(SortByScore(ScoreAll(eligible, locals))[1])

Answered == {r \in DOMAIN req : req[r].pc \in {"done", "raised"}}

\* C8: no step of a request changes the table or another request's locals;
\* the answer a request gets is the recommendation computed from the table
\* as it was at the one moment the request read it; and two requests with
\* the same body that read the same table get the same answer.
C8_RequestsIndependent ==
    /\ [](\A r1, r2 \in Answered :
            req[r1].payload = req[r2].payload /\ req[r1].snap = req[r2].snap
                => req[r1].response = req[r2].response)
    /\ [][/\ req' # req => cards' = cards
          /\ \A r1, r2 \in DOMAIN req :
                r1 # r2 /\ req'[r1] # req[r1] => req'[r2] = req[r2]
          /\ \A r \in DOMAIN req :
                req[r].pc \notin {"done", "raised"} /\ req'[r].pc \in {"done", "raised"}
                    => req'[r].response = Recommendation(req'[r].snap, req'[r].payload)]_vars

\* Two requests with the same body were answered differently, because a
\* card was added between their reads of the table.
C8_Witness ==
    \E r1, r2 \in Answered :
        /\ req[r1].payload = req[r2].payload
        /\ req[r1].snap # req[r2].snap
        /\ req[r1].response.kind = "card" /\ req[r2].response.kind = "card"
        /\ req[r1].response # req[r2].response
        /\ req[r1].snap # cards

(***************************************************************************)
(* extract_cashback_rates called on its own (SpecRates)                    *)
(***************************************************************************)
\* The most fragments a text is made of.
MaxFragments == 3

RateFragments ==
    { <<"5", "%", " ", "c", "a", "s", "h", "b", "a", "c", "k">>, <<"2", " ", "%", " ", "B", "a",
            "c", "k">>, <<"1", "2", ".", "5", "%", "b", "a", "c", "k">>, <<"1", ".", "2", ".",
            "5", " ", "%", " ", " ", "C", "A", "S", "H", "B", "A", "C", "K">>,
      <<" ", "o", "n", " ", "f", "l", "i", "g", "h", "t", "s">>, <<"B", "o", "o", "k", "i", "n",
              "g", ".", "c", "o", "m", " ">>, <<" ", "o", "n", " ", "a", "l", "l", " ", "o",
              "t", "h", "e", "r", " ", "s", "p", "e", "n", "d", "s">>, <<"\n">>, <<"\r", "\n">>,
      <<"7">>, <<"%">>, <<" ", "b", "a", "c", "k">>, <<"3", "%", " ", "c", "a", "s", "h">> }

RateTexts ==
    {Cat(fs) : fs \in UNION {[1..n -> RateFragments] : n \in 0..MaxFragments}}

InitRates ==
    /\ cards = <<>>
    /\ req = <<>>
    /\ call \in {[op |-> "extract_cashback_rates", pc |-> "called", text |-> t,
                  result |-> NoRates] : t \in RateTexts}

ReturnRates ==
    /\ call.op = "extract_cashback_rates" /\ call.pc = "called"
    /\ call' = [call EXCEPT !.pc = "returned",
                            !.result = extract_cashback_rates(call.text)]
    /\ UNCHANGED <<cards, req>>

SpecRates == InitRates /\ [][ReturnRates]_vars

\* The matches of "<number>% cashback|back" in a line, told from the "%"
\* signs: white space, then "cashback" or "back" after the sign; before it
\* white space and a number, which is the longest "digits" or
\* "digits.digits" that ends there.
IsNumber(t) ==
    /\ t # <<>> /\ IsDigit(t[1]) /\ IsDigit(t[Len(t)])
    /\ \A i \in 1..Len(t) : IsDigit(t[i]) \/ t[i] = "."
    /\ Cardinality({i \in 1..Len(t) : t[i] = "."}) <= 1

PercentRates(line) ==
    {DecimalValue(SubSeq(line, b, e)) : <<b, e>> \in
        {be \in (1..Len(line)) \X (1..Len(line)) :
            /\ be[1] <= be[2]
            /\ IsNumber(SubSeq(line, be[1], be[2]))
            /\ \A b0 \in 1..(be[1] - 1) : ~IsNumber(SubSeq(line, b0, be[2]))
            /\ \E p \in (be[2] + 1)..Len(line) :
                  /\ line[p] = "%"
                  /\ \A i \in (be[2] + 1)..(p - 1) : IsSpace(line[i])
                  /\ \E w \in (p + 1)..Len(line) :
                        /\ \A i \in (p + 1)..(w - 1) : IsSpace(line[i])
                        /\ StartsWith(line, w, <<"c", "a", "s", "h", "b", "a", "c", "k">>)
                              \/ StartsWith(line, w, <<"b", "a", "c", "k">>)}}

HasTravelKeyword(line) ==
    \E w \in { <<"f", "l", "i", "g", "h", "t">>, <<"f", "l", "i", "g", "h", "t", "s">>, <<"h",
            "o", "t", "e", "l">>, <<"t", "r", "a", "v", "e", "l">>, <<"a", "i", "r", "l", "i",
            "n", "e">>,
               <<"a", "i", "r", "l", "i", "n", "e", "s">>, <<"b", "o", "o", "k", "i", "n",
                       "g">>, <<"c", "l", "e", "a", "r", "t", "r", "i", "p">>, <<"b", "o", "o",
                       "k", "i", "n", "g", ".", "c", "o", "m">> } :
        Contains(line, w)

HasOtherKeyword(line) ==
    \E w \in { <<"a", "l", "l", " ", "o", "t", "h", "e", "r">>, <<"a", "l", "l", " ", "o", "t",
            "h", "e", "r", " ", "d", "o", "m", "e", "s", "t", "i", "c">>, <<"o", "t", "h", "e",
            "r", " ", "s", "p", "e", "n", "d", "s">>,
               <<"o", "t", "h", "e", "r", " ", "s", "p", "e", "n", "d">> } : Contains(line, w)

ClaimedCategory(line) ==
    IF HasTravelKeyword(line) THEN "travel"
    ELSE IF HasOtherKeyword(line) THEN "other" ELSE "general"

\* The rates matched on the lines of the text that fall in a category.
RatesOfCategory(text, category) ==
    LET lines == SplitLines(Lower(text))
    IN  UNION {PercentRates(lines[i]) :
                  i \in {j \in 1..Len(lines) : ClaimedCategory(lines[j]) = category}}

IsMaxOf(rate, rates) ==
    /\ rate \in rates \cup {Zero}
    /\ \A x \in rates \cup {Zero} : RatLeq(x, rate)

\* C6: each of the three rates returned is >= 0 and is the greatest of the
\* percentages matched on the lines of its category (travel keyword first,
\* then other-spend keyword, else general), 0 when there is none.
C6_RatesAreMaxima ==
    call.op = "extract_cashback_rates" /\ call.pc = "returned" =>
        \A category \in {"travel", "other", "general"} :
            /\ RatLeq(Zero, call.result[category])
            /\ IsMaxOf(call.result[category], RatesOfCategory(call.text, category))

\* A text with two different rates of one category on different lines, the
\* greater one on the earlier line.
C6_Witness ==
    /\ call.op = "extract_cashback_rates" /\ call.pc = "returned"
    /\ \E category \in {"travel", "other", "general"} :
          /\ Cardinality(RatesOfCategory(call.text, category)) >= 2
          /\ \E i, j \in 1..Len(SplitLines(Lower(call.text))) :
                /\ i < j
                /\ call.result[category] \in PercentRates(SplitLines(Lower(call.text))[i])
                /\ call.result[category] \notin PercentRates(SplitLines(Lower(call.text))[j])
                /\ PercentRates(SplitLines(Lower(call.text))[j]) # {}
                /\ ClaimedCategory(SplitLines(Lower(call.text))[j]) = category

(***************************************************************************)
(* estimate_cashback_value called on its own (SpecValue)                   *)
(***************************************************************************)
ValueCategories ==
    { None, Str(<<>>), Str(<<" ", "T", "r", "a", "v", "e", "l", " ">>), Str(<<"T", "R", "A",
            "V", "E", "L">>), Str(<<"t", "r", "a", "v", "e", "l">>),
      Str(<<"S", "h", "o", "p", "p", "i", "n", "g", " ">>), Str(<<"s", "h", "o", "p", "p", "i",
              "n", "g">>), Str(<<"c", "a", "s", "h", "b", "a", "c", "k">>), Str(<<"R", "e", "w",
              "a", "r", "d", "s">>),
      Str(<<"o", "t", "h", "e", "r">>), Str(<<"t", "r", "a", "v", "e", "l", "s">>) }

\* Spend dictionaries: the eight buckets of api_recommend, and dictionaries
\* with fewer keys.
ValueSpends ==
    { [b \in Buckets |-> Zero],
      [b \in Buckets |->
          CASE b = "travel" -> Num(1000) [] b = "foreign" -> Num(500)
            [] b = "retail" -> Num(2000) [] b = "fuel" -> Norm(3005, 10)
            [] OTHER -> Zero],
      [b \in Buckets |->
          CASE b = "travel" -> RatNeg(Num(200)) [] b = "retail" -> Num(40)
            [] OTHER -> Num(10)],
      [b \in {"retail"} |-> Num(2000)],
      [b \in {"travel", "fuel"} |-> IF b = "travel" THEN Num(300) ELSE Num(700)],
      [b \in {} |-> Zero] }

ValueRates == {Zero, Num(2), Num(3), Norm(15, 10), RatNeg(Num(1))}

InitValue ==
    /\ cards = <<>>
    /\ req = <<>>
    /\ call \in {[op |-> "estimate_cashback_value", pc |-> "called", category |-> c,
                  spend |-> sp,
                  rates |-> [travel |-> t, other |-> o, general |-> g],
                  result |-> Zero] :
                    c \in ValueCategories, sp \in ValueSpends,
                    t \in ValueRates, o \in ValueRates, g \in ValueRates}

ReturnValue ==
    /\ call.op = "estimate_cashback_value" /\ call.pc = "called"
    /\ call' = [call EXCEPT !.pc = "returned",
                            !.result = estimate_cashback_value(call.category, call.spend,
                                                               call.rates)]
    /\ UNCHANGED <<cards, req>>

SpecValue == InitValue /\ [][ReturnValue]_vars

\* The categories that are "travel", and those that are "shopping", once
\* trimmed and compared without case.
TravelForms == { Str(<<" ", "T", "r", "a", "v", "e", "l", " ">>), Str(<<"T", "R", "A", "V", "E",
        "L">>), Str(<<"t", "r", "a", "v", "e", "l">>) }

ShoppingForms == { Str(<<"S", "h", "o", "p", "p", "i", "n", "g", " ">>), Str(<<"s", "h", "o",
        "p", "p", "i", "n", "g">>) }

Bucket(spend, b) == IF b \in DOMAIN spend THEN spend[b] ELSE Zero

RECURSIVE SumOfBuckets(_, _)
SumOfBuckets(spend, bs) ==
    IF bs = {} THEN Zero
    ELSE LET b == CHOOSE x \in bs : TRUE
         IN  RatAdd(Bucket(spend, b), SumOfBuckets(spend, bs \ {b}))

\* value = base x rate / 100, without a division.
IsShareOf(value, base, rate) == RatMul(value, Num(100)) = RatMul(base, rate)

Greatest(rates) ==
    CHOOSE m \in {rates.travel, rates.other, rates.general} :
        \A x \in {rates.travel, rates.other, rates.general} : RatLeq(x, m)

\* C5: for "travel" the value is (travel + foreign) x rate / 100 with the
\* travel rate if > 0, else the general rate if > 0, else 0; for "shopping"
\* it is retail x best / 100; for any other or unset category it is
\* (the sum of all buckets) x best / 100; best is the greatest of the three
\* rates and the value is 0 when best <= 0.
C5_ValueByCategory ==
    call.op = "estimate_cashback_value" /\ call.pc = "returned" =>
        LET rates == call.rates
            spend == call.spend
            value == call.result
            best == Greatest(rates)
            travel_base == RatAdd(Bucket(spend, "travel"), Bucket(spend, "foreign"))
        IN  /\ call.category \in TravelForms =>
                  IF RatLess(Zero, rates.travel)
                  THEN IsShareOf(value, travel_base, rates.travel)
                  ELSE IF RatLess(Zero, rates.general)
                       THEN IsShareOf(value, travel_base, rates.general)
                  ELSE value = Zero
            /\ call.category \in ShoppingForms =>
                  IF RatLeq(best, Zero) THEN value = Zero
                  ELSE IsShareOf(value, Bucket(spend, "retail"), best)
            /\ call.category \notin TravelForms \cup ShoppingForms =>
                  IF RatLeq(best, Zero) THEN value = Zero
                  ELSE IsShareOf(value, SumOfBuckets(spend, Buckets), best)
            /\ ( /\ call.category = Str(<<"s", "h", "o", "p", "p", "i", "n", "g">>)
                 /\ spend = [b \in {"retail"} |-> Num(2000)]
                 /\ rates = [travel |-> Zero, other |-> Zero, general |-> Num(3)] )
                  => value = Num(60)

\* A travel category written with capitals or spaces around it, no travel
\* rate, a general rate and a greater other rate: the value is the share of
\* the general rate, and it is not 0.
C5_Witness ==
    /\ call.op = "estimate_cashback_value" /\ call.pc = "returned"
    /\ call.category \in TravelForms \ {Str(<<"t", "r", "a", "v", "e", "l">>)}
    /\ call.rates.travel = Zero
    /\ RatLess(Zero, call.rates.general)
    /\ RatLess(call.rates.general, call.rates.other)
    /\ call.result # Zero
    /\ IsShareOf(call.result,
                 RatAdd(Bucket(call.spend, "travel"), Bucket(call.spend, "foreign")),
                 call.rates.general)

(***************************************************************************)
(* score_card called on its own (SpecScore)                                *)
(***************************************************************************)
\* The rows admin_add_card writes from the forms of the model.
ScoreCards == {InsertedRow(1, form) : form \in AdminForms}

ScoreCategories == { Str(<<>>), Str(<<"T", "r", "a", "v", "e", "l">>), Str(<<"s", "h", "o", "p",
        "p", "i", "n", "g">>) }

ScoreSpends ==
    { [b \in Buckets |-> Zero],
      [b \in Buckets |-> IF b = "travel" THEN Num(1000) ELSE Zero],
      [b \in Buckets |->
          CASE b = "travel" -> RatNeg(Num(200)) [] b = "retail" -> Num(40)
            [] b = "foreign" -> Norm(1005, 10) [] OTHER -> Zero] }

ScoreFeatureLists ==
    { <<>>,
      << <<"A", "i", "r", "p", "o", "r", "t", " ", "L", "o", "u", "n", "g", "e", " ", "A", "c",
              "c", "e", "s", "s">> >>,
      << <<" ", "A", "i", "r", "p", "o", "r", "t", " ", "L", "o", "u", "n", "g", "e", " ", "A",
              "c", "c", "e", "s", "s", " ">>, <<>>, <<"V", "a", "l", "e", "t", " ", "P", "a",
              "r", "k", "i", "n", "g">> >>,
      << <<" ", " ">>, <<"M", "e", "t", "a", "l", " ", "C", "a", "r", "d">>, <<"M", "e", "t",
              "a", "l", " ", "C", "a", "r", "d">> >>,
      << <<"l", "o", "u", "n", "g", "e">>, <<"m", "e", "t", "a", "l", " ", "c", "a", "r", "d">> >>,
      << <<"V", "a", "l", "e", "t", " ", "P", "a", "r", "k", "i", "n", "g", "\t">>, <<"M", "e",
              "t", "a", "l", " ", "C", "a", "r", "d">>, <<"C", "i", "n", "e", "m", "a", " ",
              "O", "f", "f", "e", "r", "s">> >> }

InitScore ==
    /\ cards = <<>>
    /\ req = <<>>
    /\ call \in {[op |-> "score_card", pc |-> "called", card |-> c, category |-> k,
                  spend |-> sp, selected_features |-> fs, result |-> NoResponse] :
                    c \in ScoreCards, k \in ScoreCategories, sp \in ScoreSpends,
                    fs \in ScoreFeatureLists}

ReturnScore ==
    /\ call.op = "score_card" /\ call.pc = "called"
    /\ call' = [call EXCEPT !.pc = "returned",
                            !.result = score_card(call.card, call.category, call.spend,
                                                  call.selected_features)]
    /\ UNCHANGED <<cards, req>>

SpecScore == InitScore /\ [][ReturnScore]_vars

\* The requested features, trimmed, the empty ones dropped.
TrimmedRequests(selected_features) ==
    {Strip(selected_features[i]) : i \in 1..Len(selected_features)} \ {<<>>}

\* C4: the matched features are the features detected in the text of the
\* card that are among the requested ones (trimmed); the score is
\* value + 15 x |matched| when the estimated value is > 0 and
\* minimum_salary / 1000 + 15 x |matched| otherwise; a Travel card with
\* "2% cashback on flights", travel spend 1000 and no requested feature
\* scores 20.
C4_ScoreAndMatches ==
    call.op = "score_card" /\ call.pc = "returned" =>
        LET blob == text_block(call.card)
            value == estimate_cashback_value(call.category, call.spend,
                                             extract_cashback_rates(blob))
            matched == detect_features(blob) \cap TrimmedRequests(call.selected_features)
            bonus == 15 * Cardinality(matched)
        IN  /\ call.result.matched_features = matched
            /\ call.result.cashback_value = value
            /\ IF RatLess(Zero, value)
               THEN call.result.score = RatAdd(value, Num(bonus))
               ELSE RatMul(call.result.score, Num(1000))
                        = RatAdd(call.card.minimum_salary, Num(1000 * bonus))
            /\ ( /\ call.card.core_perks = <<"2", "%", " ", "c", "a", "s", "h", "b", "a", "c",
                    "k", " ", "o", "n", " ", "f", "l", "i", "g", "h", "t", "s">>
                 /\ call.card.product = <<"Z", "e", "t", "a">>
                 /\ call.category = Str(<<"T", "r", "a", "v", "e", "l">>)
                 /\ call.spend["travel"] = Num(1000) /\ call.spend["foreign"] = Zero
                 /\ call.selected_features = <<>> )
                  => call.result.score = Num(20)

\* A card with no value for the request and a minimum salary, matched on a
\* feature that was requested with white space around its name.
C4_Witness ==
    /\ call.op = "score_card" /\ call.pc = "returned"
    /\ ~RatLess(Zero, call.result.cashback_value)
    /\ RatLess(Zero, call.card.minimum_salary)
    /\ \E i \in 1..Len(call.selected_features) :
          /\ Strip(call.selected_features[i]) # call.selected_features[i]
          /\ Strip(call.selected_features[i]) \in call.result.matched_features
    /\ call.result.score = RatAdd(RatDiv(call.card.minimum_salary, 1000),
                                  Num(15 * Cardinality(call.result.matched_features)))

(***************************************************************************)
(* score_card on the five text fields of a product in every order          *)
(* (SpecOrder)                                                             *)
(***************************************************************************)
\* The most fields of a product that hold text.
MaxPerks == 2

\* The columns text_block joins, in its order.
BlockColumns == <<"core_perks", "secondary_perks", "extra_perks", "card_type", "product">>

\* Texts of a field, as normalize_text stores them.
FieldTexts ==
    << <<"2", "%", " ", "c", "a", "s", "h", "b", "a", "c", "k">>, <<"H", "o", "t", "e",
            "l">>, <<"g", "o", "l", "f">>, <<"t", "r", "a", "n", "s", "f", "e", "r">>, <<"O",
            "t", "h", "e", "r", " ", "s", "p", "e", "n", "d", "s">>,
       <<"5", " ", "%">>, <<"A", "i", "r", "p", "o", "r", "t">>, <<"7", "%", " ", "B", "a", "c",
               "k", "\n", "M", "e", "t", "a", "l">>, <<"b", "a", "c", "k", " ", "o", "n", " ",
               "a", "l", "l">> >>

\* The products of the model: up to MaxPerks texts in the leading columns,
\* the other columns empty.  Every other product with the same five field
\* values is one of the arrangements ReturnOrder scores.
OrderCards ==
    {[[InsertedRow(1, BlankForm) EXCEPT !.minimum_salary = Num(5000)] EXCEPT
          !.core_perks = IF 1 <= Len(ix) THEN FieldTexts[ix[1]] ELSE <<>>,
          !.secondary_perks = IF 2 <= Len(ix) THEN FieldTexts[ix[2]] ELSE <<>>,
          !.extra_perks = IF 3 <= Len(ix) THEN FieldTexts[ix[3]] ELSE <<>>,
          !.card_type = IF 4 <= Len(ix) THEN FieldTexts[ix[4]] ELSE <<>>,
          !.product = IF 5 <= Len(ix) THEN FieldTexts[ix[5]] ELSE <<>>] :
        ix \in {jx \in UNION {[1..n -> 1..Len(FieldTexts)] : n \in 0..MaxPerks} :
                   \A i \in 1..(Len(jx) - 1) : jx[i] <= jx[i + 1]}}

OrderCategories == { Str(<<"T", "r", "a", "v", "e", "l">>), Str(<<>>) }

OrderSpend ==
    [b \in Buckets |->
        CASE b = "travel" -> Num(1000) [] b = "retail" -> Num(500) [] OTHER -> Zero]

OrderFeatures == << <<"A", "i", "r", "p", "o", "r", "t", " ", "T", "r", "a", "n", "s", "f", "e",
        "r", "s">>, <<"M", "e", "t", "a", "l", " ", "C", "a", "r", "d">> >>

\* The card with the values of its five text fields in another order.
Reordered(card, p) ==
    [c \in DOMAIN card |->
        IF \E i \in 1..5 : BlockColumns[i] = c
        THEN card[BlockColumns[p[CHOOSE i \in 1..5 : BlockColumns[i] = c]]]
        ELSE card[c]]

Arrangements(card) == {Reordered(card, p) : p \in Permutations(1..5)}

\* What score_card computes for a card: the rates of its text, the
\* features detected in it, and the score.
Outcome(card, category, spend, selected_features) ==
    LET scored == score_card(card, category, spend, selected_features)
    IN  [fields |-> [i \in 1..5 |-> card[BlockColumns[i]]],
         rates |-> extract_cashback_rates(text_block(card)),
         features |-> scored.available_features,
         score |-> scored.score]

InitOrder ==
    /\ cards = <<>>
    /\ req = <<>>
    /\ call \in {[op |-> "score_card in every order", pc |-> "called", card |-> c,
                  category |-> k, result |-> {}] :
                    c \in OrderCards, k \in OrderCategories}

\* score_card is called on the card and on each arrangement of its fields.
ReturnOrder ==
    /\ call.op = "score_card in every order" /\ call.pc = "called"
    /\ call' = [call EXCEPT !.pc = "returned",
                            !.result = {Outcome(a, call.category, OrderSpend,
                                                OrderFeatures) :
                                           a \in Arrangements(call.card)}]
    /\ UNCHANGED <<cards, req>>

SpecOrder == InitOrder /\ [][ReturnOrder]_vars

SameOutcome(x, y) ==
    x.rates = y.rates /\ x.features = y.features /\ x.score = y.score

\* C10 as written: whatever the order of the five fields, the rates, the
\* detected features and the score are the same.
C10_AnyOrderSameOutcome ==
    call.op = "score_card in every order" /\ call.pc = "returned" =>
        \A x, y \in call.result : SameOutcome(x, y)

EndsWith(t, w) ==
    Len(w) <= Len(t) /\ SubSeq(t, Len(t) - Len(w) + 1, Len(t)) = w

\* A field that cannot join the next one into a rate, a keyword or a line:
\* it has no line break and, trimmed and without case, does not end with
\* a digit, "%", "all", "other" or "airport".
OrderSafeField(t) ==
    LET l == Lower(Strip(t))
    IN  /\ \A i \in 1..Len(t) : ~IsLineBreak(t[i])
        /\ l # <<>> => ~IsDigit(l[Len(l)])
        /\ \A w \in { <<"%">>, <<"a", "l", "l">>, <<"o", "t", "h", "e", "r">>, <<"a", "i", "r",
                "p", "o", "r", "t">> } : ~EndsWith(l, w)

OrderSafe(card) == \A i \in 1..5 : OrderSafeField(card[BlockColumns[i]])

\* C10, amended: when no field has a line break or ends with a digit, "%",
\* "all", "other" or "airport", the rates, the detected features and the
\* score are the same in every order of the five fields.
C10_SafeOrderSameOutcome ==
    ( /\ call.op = "score_card in every order" /\ call.pc = "returned"
      /\ OrderSafe(call.card) ) =>
        \A x, y \in call.result : SameOutcome(x, y)

\* A product of two safe fields, a rate in one and a travel keyword in the
\* other, scored in several orders with the travel rate found in each.
C10_Witness ==
    /\ call.op = "score_card in every order" /\ call.pc = "returned"
    /\ OrderSafe(call.card)
    /\ call.card.core_perks # <<>> /\ call.card.secondary_perks # <<>>
    /\ call.card.core_perks # call.card.secondary_perks
    /\ Cardinality({x.fields : x \in call.result}) = 20
    /\ \A x \in call.result : RatLess(Zero, x.rates.travel)

====
